---- MODULE Spec2Model ----
(***************************************************************************)
(* A model of DocChat-Local: the Markdown chunker (app/utils.py,           *)
(* app/ingest.py), the ingestion pipeline that rebuilds the SQLite chunk    *)
(* store, the FAISS index and meta.json (app/ingest.py main), and the       *)
(* query-side RAG object (app/rag.py) and the /ask handler that uses it     *)
(* (app/server.py); and the converter that fills data/raw from Docs         *)
(* (run_total_convert.py).                                                 *)
(*                                                                         *)
(* Seven specifications share the module:                                  *)
(*   SpecWindow  sliding_window applied to bounded (len(tokens), size,      *)
(*               overlap) inputs;                                           *)
(*   SpecChunk   chunk_markdown applied to bounded Markdown documents;      *)
(*   SpecSlug    slugify_heading applied to bounded strings;                *)
(*   SpecPrompt  build_prompt applied to bounded questions and contexts;    *)
(*   SpecServe   concurrent /ask requests on one RAG object;                *)
(*   SpecConvert runs of run_total_convert.py over one Docs folder;         *)
(*   Spec        ingestion runs against one index directory, interleaved    *)
(*               with RAG construction and retrieve calls.                  *)
(***************************************************************************)
EXTENDS Integers, Sequences, FiniteSets, TLC

VARIABLES
    \* ---- SpecWindow: one call of sliding_window
    w_len,        \* len(tokens)
    w_size,       \* size
    w_overlap,    \* overlap
    w_out,        \* the windows yielded, in order, as <<start, end>>
    w_pc,         \* "idle" (not in use), "call" before the call, "done" after it
    \* ---- SpecChunk: one call of chunk_markdown
    c_md,         \* md.splitlines(): the document as a sequence of lines
    c_source,     \* source
    c_out,        \* the list of chunks returned
    c_sections,   \* chunk_markdown's local list sections, as the line loop left it
    c_pc,         \* "idle" (not in use), "call" before the call, "done" after it
    \* ---- Spec: the index directory, one ingestion process, one RAG object
    db,           \* chunks.sqlite as committed: [table |-> BOOLEAN, rows |-> rows of chunks]
    faiss_file,   \* faiss.index: [exists |-> BOOLEAN, vecs |-> the vectors, in ordinal order]
    meta_file,    \* meta.json: [exists |-> BOOLEAN, count |-> .., embed_model |-> ..]
    pc,           \* where ingest.main() stands: "idle" (no run in progress), "walk",
                  \* "insert", "embed", "write_index", "write_meta"
    run_files,    \* the files os.walk(RAW_DIR) yields to the current (or last) run
    all_chunks,   \* main's all_chunks
    index,        \* main's in-memory faiss index (after index.add)
    outcome,      \* how the last run ended: "none", "running", "done", "no_chunks",
                  \* "load_failed", "read_failed", "embed_failed"
    pre,          \* history: the three artifacts as they were when the run started
    clean,        \* history: no run so far ended by an exception
    rag,          \* the RAG object: [open |-> BOOLEAN, index |-> the index read by __init__]
    out,          \* the last retrieve call: [called, raised, k, q, hits, results]
    \* ---- SpecSlug: one call of slugify_heading
    s_in,         \* the argument s, as a sequence of characters
    s_out,        \* the string returned
    s_pc,         \* "idle" (not in use), "call" before the call, "done" after it
    \* ---- SpecPrompt: one call of RAG.build_prompt
    p_question,   \* question, as the sequence of its lines
    p_ctx,        \* ctx, a list of retrieve results
    p_out,        \* the string returned, as the sequence of its lines
    p_pc,         \* "idle" (not in use), "call" before the call, "done" after it
    \* ---- SpecServe: the server process, its one RAG object, the /ask requests
    loop_owner,   \* the request whose coroutine the event loop is running, 0: none
    asks,         \* per request: where ask() stands and what it has computed
    cursor,       \* rag.cur, the one cursor: the statement last executed on it
    \* ---- SpecConvert: runs of run_total_convert.py over Docs and data/raw
    t_docs,       \* the files under Docs: a set of [stem, ext, mtime]
    t_out,        \* data/raw: per stem the file <stem>.md, [exists, mtime, from]
    t_flags,      \* the command line of the current (or last) run
    t_todo,       \* the files of all_files the loop has not reached yet
    t_pc,         \* "idle" (no run in progress) or "run"
    t_runs,       \* history: the number of runs started
    t_start,      \* history: the files under Docs when the current run gathered them
    t_deleted,    \* history: the deletions of the current run, [file, why, out_from]
    t_done        \* history: how the loop left each file of the current run, [file, result]

wvars == <<w_len, w_size, w_overlap, w_out, w_pc>>
cvars == <<c_md, c_source, c_out, c_sections, c_pc>>
ivars == <<db, faiss_file, meta_file, pc, run_files, all_chunks, index, outcome, pre, clean>>
rvars == <<rag, out>>
svars == <<s_in, s_out, s_pc>>
pvars == <<p_question, p_ctx, p_out, p_pc>>
avars == <<loop_owner, asks, cursor>>
tvars == <<t_docs, t_out, t_flags, t_todo, t_pc, t_runs, t_start, t_deleted, t_done>>

vars == <<wvars, cvars, ivars, rvars, svars, pvars, avars, tvars>>

(***************************************************************************)
(* Bounds of the model.                                                    *)
(***************************************************************************)
MaxTokens == 9      \* SpecWindow: len(tokens) ranges over 0..MaxTokens
MaxSize == 4        \* SpecWindow: size ranges over -1..MaxSize
MaxOverlap == 4     \* SpecWindow: overlap ranges over -1..MaxOverlap
MaxLines == 3       \* SpecChunk: a document has at most MaxLines lines
MaxLevel == 2       \* SpecChunk: heading lines have 1..MaxLevel leading '#'
MaxSlugLen == 3     \* SpecSlug: strings of up to MaxSlugLen characters of SlugAlphabet
MaxCtx == 3         \* SpecPrompt: build_prompt is called with up to MaxCtx context items
MaxRequests == 2    \* SpecServe: /ask requests in flight in one server process
MaxPosts == 2       \* SpecServe: the provider has a reply for up to MaxPosts requests
MaxFiles == 2       \* SpecConvert: Docs starts with at most MaxFiles files
MaxMtime == 2       \* SpecConvert: the files of Docs have an mtime in 1..MaxMtime
MaxRuns == 2        \* SpecConvert: the converter is run at most MaxRuns times
MaxK == 4           \* Spec: retrieve is called with k in -1..MaxK

(***************************************************************************)
(* app/config.py: the chunking configuration (defaults of CHUNK_TOKENS and *)
(* CHUNK_OVERLAP).                                                         *)
(***************************************************************************)
CHUNK_TOKENS == 900
CHUNK_OVERLAP == 120
EMBED_MODEL == "sentence-transformers/all-MiniLM-L6-v2"

(***************************************************************************)
(* Strings are sequences of one-character strings.                         *)
(***************************************************************************)
UpperLetters == <<"A","B","C","D","E","F","G","H","I","J","K","L","M",
                  "N","O","P","Q","R","S","T","U","V","W","X","Y","Z">>
LowerLetters == <<"a","b","c","d","e","f","g","h","i","j","k","l","m",
                  "n","o","p","q","r","s","t","u","v","w","x","y","z">>
Digits == {"0","1","2","3","4","5","6","7","8","9"}

\* str.lower on one character
lower_char(c) ==
    IF \E i \in DOMAIN UpperLetters : UpperLetters[i] = c
    THEN LowerLetters[CHOOSE i \in DOMAIN UpperLetters : UpperLetters[i] = c]
    ELSE c

lower(s) == [i \in DOMAIN s |-> lower_char(s[i])]

\* the regex classes \s and \w
IsSpace(c) == c \in {" ", "\t"}
IsWord(c) ==
    \/ \E i \in DOMAIN UpperLetters : UpperLetters[i] = c \/ LowerLetters[i] = c
    \/ c \in Digits
    \/ c = "_"

Last(seq) == seq[Len(seq)]
Front(seq) == SubSeq(seq, 1, Len(seq) - 1)

RECURSIVE lstrip(_, _)
lstrip(s, chars) ==
    IF s # <<>> /\ Head(s) \in chars THEN lstrip(Tail(s), chars) ELSE s

RECURSIVE rstrip(_, _)
rstrip(s, chars) ==
    IF s # <<>> /\ Last(s) \in chars THEN rstrip(Front(s), chars) ELSE s

\* str.strip() and str.strip(chars)
strip_chars(s, chars) == rstrip(lstrip(s, chars), chars)
strip(s) == strip_chars(s, {" ", "\t"})

\* len(s.split()): the number of whitespace-delimited tokens of s
RECURSIVE count_tokens(_, _)
count_tokens(s, in_token) ==
    IF s = <<>> THEN 0
    ELSE IF IsSpace(Head(s)) THEN count_tokens(Tail(s), FALSE)
    ELSE (IF in_token THEN 0 ELSE 1) + count_tokens(Tail(s), TRUE)

Max(a, b) == IF a >= b THEN a ELSE b
Min(a, b) == IF a <= b THEN a ELSE b

(***************************************************************************)
(* app/utils.py sliding_window.  The generator only reads len(tokens), so  *)
(* the token list is represented by its length.  window_loop is the for    *)
(* loop over range(0, max(0, len(tokens)-1), step) with its break.         *)
(***************************************************************************)
RECURSIVE window_loop_to_len(_, _, _, _)
window_loop_to_len(start, len_tokens, size, step) ==
    \* the loop with range(0, len(tokens), step): the bound without the -1
    IF start >= Max(0, len_tokens)
    THEN <<>>
    ELSE LET end == Min(len_tokens, start + size)
         IN  IF end = len_tokens
             THEN << <<start, end>> >>
             ELSE << <<start, end>> >> \o window_loop_to_len(start + step, len_tokens, size, step)

\* the loop with end = start + size, not limited to len(tokens)
RECURSIVE window_loop_unclamped(_, _, _, _)
window_loop_unclamped(start, len_tokens, size, step) ==
    IF start >= Max(0, len_tokens - 1)
    THEN <<>>
    ELSE LET end == start + size
         IN  IF end = len_tokens
             THEN << <<start, end>> >>
             ELSE << <<start, end>> >>
                  \o window_loop_unclamped(start + step, len_tokens, size, step)

RECURSIVE window_loop(_, _, _, _)
window_loop(start, len_tokens, size, step) ==
    IF start >= Max(0, len_tokens - 1)
    THEN <<>>
    ELSE LET end == Min(len_tokens, start + size)
         IN  IF end = len_tokens
             THEN << <<start, end>> >>
             ELSE << <<start, end>> >> \o window_loop(start + step, len_tokens, size, step)

window_step_no_overlap(size, overlap) == Max(1, size)

window_step(size, overlap) == Max(1, size - overlap)

sliding_window(len_tokens, size, overlap) ==
    window_loop(0, len_tokens, size, window_step(size, overlap))

(***************************************************************************)
(* app/utils.py md_title_path: " / ".join of the stripped non-blank parts. *)
(***************************************************************************)
RECURSIVE nonblank_parts(_)
nonblank_parts(path_parts) ==
    IF path_parts = <<>> THEN <<>>
    ELSE IF strip(Head(path_parts)) # <<>>
         THEN <<strip(Head(path_parts))>> \o nonblank_parts(Tail(path_parts))
         ELSE nonblank_parts(Tail(path_parts))

RECURSIVE join(_, _)
join(sep, parts) ==
    IF parts = <<>> THEN <<>>
    ELSE IF Len(parts) = 1 THEN parts[1]
    ELSE parts[1] \o sep \o join(sep, Tail(parts))

md_title_path(path_parts) == join(<<" ", "/", " ">>, nonblank_parts(path_parts))

(***************************************************************************)
(* app/ingest.py slugify_heading.                                          *)
(***************************************************************************)
\* re.sub(r"[^\w\s-]", "", s) keeps exactly these characters
slug_keeps(c) == IsWord(c) \/ IsSpace(c) \/ c = "-"

\* re.sub(r"[\s_]+", "-", s)
RECURSIVE spaces_to_dashes(_, _)
spaces_to_dashes(s, in_run) ==
    IF s = <<>> THEN <<>>
    ELSE IF IsSpace(Head(s)) \/ Head(s) = "_"
         THEN (IF in_run THEN <<>> ELSE <<"-">>) \o spaces_to_dashes(Tail(s), TRUE)
         ELSE <<Head(s)>> \o spaces_to_dashes(Tail(s), FALSE)

\* a variant that leaves runs of hyphens as they are
collapse_dashes_not(s, in_run) == s

\* re.sub(r"-{2,}", "-", s)
RECURSIVE collapse_dashes(_, _)
collapse_dashes(s, in_run) ==
    IF s = <<>> THEN <<>>
    ELSE IF Head(s) = "-"
         THEN (IF in_run THEN <<>> ELSE <<"-">>) \o collapse_dashes(Tail(s), TRUE)
         ELSE <<Head(s)>> \o collapse_dashes(Tail(s), FALSE)

slugify_heading(s) ==
    LET s1 == lower(strip(s))
        s2 == SelectSeq(s1, slug_keeps)
        s3 == spaces_to_dashes(s2, FALSE)
    IN  strip_chars(collapse_dashes(s3, FALSE), {"-"})

(***************************************************************************)
(* app/ingest.py chunk_markdown.                                           *)
(*                                                                         *)
(* A line of the document is a record                                      *)
(*   [level |-> the number of leading '#' (0: not a heading line),          *)
(*    text  |-> for a heading line, the characters after the leading '#',   *)
(*    ntok  |-> for any other line, the number of whitespace tokens in it]. *)
(* The words of a non-heading line are not represented, only their number: *)
(* the chunker reads nothing else of them.                                 *)
(***************************************************************************)
\* line.startswith("#")
is_heading(line) == line.level >= 1

\* the characters of a heading line
heading_chars(line) == [i \in 1..line.level |-> "#"] \o line.text

\* len(simple_tokenize(line))
line_tokens(line) ==
    IF is_heading(line) THEN count_tokens(heading_chars(line), FALSE) ELSE line.ntok

\* level = len(line) - len(line.lstrip("#"))
heading_level(line) ==
    Len(heading_chars(line)) - Len(lstrip(heading_chars(line), {"#"}))

\* title = line.lstrip("#").strip()
heading_title(line) == strip(lstrip(heading_chars(line), {"#"}))

\* a variant that keeps level elements of the old path
push_heading_keep_level(path_stack, level, title) ==
    SubSeq(path_stack, 1, Min(Len(path_stack), Max(0, level))) \o <<title>>

\* path_stack[: max(0, level - 1)] + [title]
push_heading(path_stack, level, title) ==
    SubSeq(path_stack, 1, Min(Len(path_stack), Max(0, level - 1))) \o <<title>>

\* flush_section: a non-empty buffer becomes a section tagged with path_stack
flush_section(sections, buf, path_stack) ==
    IF buf # <<>>
    THEN Append(sections, [text |-> buf, path |-> path_stack])
    ELSE sections

\* the buffer after a heading line: a variant that leaves the heading line out
heading_buf_without_line(line) == <<>>

\* the buffer after a heading line: flush_section cleared it, then buf.append(line)
heading_buf(line) == <<line>>

\* the loop over the lines, then the final flush_section
RECURSIVE split_sections(_, _, _, _, _)
split_sections(lines, i, path_stack, buf, sections) ==
    IF i > Len(lines)
    THEN flush_section(sections, buf, path_stack)
    ELSE IF is_heading(lines[i])
         THEN split_sections(lines, i + 1,
                             push_heading(path_stack, heading_level(lines[i]),
                                          heading_title(lines[i])),
                             heading_buf(lines[i]),
                             flush_section(sections, buf, path_stack))
         ELSE split_sections(lines, i + 1, path_stack, Append(buf, lines[i]), sections)

\* len(simple_tokenize(text)) for a section text "\n".join(buf)
RECURSIVE section_tokens(_)
section_tokens(buf) ==
    IF buf = <<>> THEN 0 ELSE line_tokens(Head(buf)) + section_tokens(Tail(buf))

\* a variant that takes the anchor from the first title of the path
section_chunks_anchor_of_first(sec, source) ==
    LET wins == sliding_window(section_tokens(sec.text), CHUNK_TOKENS, CHUNK_OVERLAP)
        anchor == IF sec.path # <<>> THEN slugify_heading(Head(sec.path)) ELSE <<>>
    IN  [i \in 1..Len(wins) |->
            [source |-> source,
             section_title |-> md_title_path(sec.path),
             anchor |-> anchor,
             text |-> [sec |-> sec.text, s |-> wins[i][1], e |-> wins[i][2]]]]

\* the chunks of one section: one per window; text is tokens s..e-1 of the section
section_chunks(sec, source) ==
    LET wins == sliding_window(section_tokens(sec.text), CHUNK_TOKENS, CHUNK_OVERLAP)
        anchor == IF sec.path # <<>> THEN slugify_heading(Last(sec.path)) ELSE <<>>
    IN  [i \in 1..Len(wins) |->
            [source |-> source,
             section_title |-> md_title_path(sec.path),
             anchor |-> anchor,
             text |-> [sec |-> sec.text, s |-> wins[i][1], e |-> wins[i][2]]]]

RECURSIVE all_section_chunks(_, _)
all_section_chunks(sections, source) ==
    IF sections = <<>> THEN <<>>
    ELSE section_chunks(Head(sections), source) \o all_section_chunks(Tail(sections), source)

chunk_markdown(md, source) ==
    all_section_chunks(split_sections(md, 1, <<>>, <<>>, <<>>), source)

(***************************************************************************)
(* The inputs of the bounded checks.                                       *)
(***************************************************************************)
\* token counts of non-heading lines: blank, one word, the 50-token body and the
\* 2000-token document of the spec's scenario
BodyTokens == {0, 1, 50, 2000}

\* what follows the '#'s of a heading line: "# A", "#", "# b c!", "#x"
HeadingTexts == { <<" ", "A">>, <<>>, <<" ", "b", " ", "c", "!">>, <<"x">> }

BodyLines == { [level |-> 0, text |-> <<>>, ntok |-> n] : n \in BodyTokens }
HeadingLines == { [level |-> l, text |-> t, ntok |-> 0] : l \in 1..MaxLevel, t \in HeadingTexts }
Lines == BodyLines \cup HeadingLines

RECURSIVE SeqsUpTo(_, _)
SeqsUpTo(S, n) ==
    IF n = 0 THEN { <<>> }
    ELSE LET shorter == SeqsUpTo(S, n - 1)
         IN  shorter \cup { Append(q, x) : q \in { r \in shorter : Len(r) = n - 1 }, x \in S }

(***************************************************************************)
(* app/ingest.py: the files of data/raw and read_any.                      *)
(*                                                                         *)
(* A file is [path, ext, readable, content]; content is the Markdown text  *)
(* read_any returns for it, as a sequence of lines.  readable = FALSE is a  *)
(* file whose read_text raises OSError (permission denied, a dangling      *)
(* symlink, ...).                                                          *)
(***************************************************************************)
SUPPORTED_EXTS == {".md", ".txt", ".html", ".htm"}

\* "# A" followed by a 50-token body: one chunk
DocA == << [level |-> 1, text |-> <<" ", "A">>, ntok |-> 0],
           [level |-> 0, text |-> <<>>, ntok |-> 50] >>
\* 2000 tokens without a heading: three chunks
DocB == << [level |-> 0, text |-> <<>>, ntok |-> 2000] >>

\* the files data/raw may hold, in the order os.walk lists them
FilePool ==
    << [path |-> "b.md",  ext |-> ".md",  readable |-> TRUE,  content |-> DocB],
       [path |-> "a.txt", ext |-> ".txt", readable |-> TRUE,  content |-> DocA],
       [path |-> "c.md",  ext |-> ".md",  readable |-> FALSE, content |-> DocA],
       [path |-> "d.doc", ext |-> ".doc", readable |-> TRUE,  content |-> <<>>] >>

RECURSIVE SubSeqOf(_, _)
SubSeqOf(seq, keep) ==
    IF seq = <<>> THEN <<>>
    ELSE (IF Len(seq) \in keep THEN SubSeqOf(Front(seq), keep) \o <<Last(seq)>>
          ELSE SubSeqOf(Front(seq), keep))

\* every content of data/raw: the files of FilePool at the positions in keep
Walks == { SubSeqOf(FilePool, keep) : keep \in SUBSET (DOMAIN FilePool) }

\* the for loop of main over the files of the walk (lines 122-136): the result is
\* [raised |-> an exception left the loop, chunks |-> all_chunks so far]
RECURSIVE walk_files(_, _)
walk_files(files, chunks) ==
    IF files = <<>> THEN [raised |-> FALSE, chunks |-> chunks]
    ELSE LET f == Head(files)
         IN  IF f.ext \notin SUPPORTED_EXTS
             THEN walk_files(Tail(files), chunks)            \* continue (line 128)
             ELSE IF ~f.readable
             THEN [raised |-> TRUE, chunks |-> chunks]       \* OSError is not caught
             ELSE walk_files(Tail(files), chunks \o chunk_markdown(f.content, f.path))

(***************************************************************************)
(* app/ingest.py build_sqlite and the INSERT loop of main.                 *)
(***************************************************************************)
\* a variant with CREATE TABLE IF NOT EXISTS and no DROP TABLE
build_sqlite_no_drop(old) == [table |-> TRUE, rows |-> old.rows]

\* DROP TABLE IF EXISTS chunks; CREATE TABLE chunks (...); commit
build_sqlite(old) == [table |-> TRUE, rows |-> <<>>]

\* SQLite's id for INSERT into an INTEGER PRIMARY KEY column given no value:
\* one more than the largest id in the table, 1 for an empty table
next_id(rows) ==
    IF rows = <<>> THEN 1
    ELSE 1 + (CHOOSE m \in {rows[i].id : i \in DOMAIN rows} :
                 \A i \in DOMAIN rows : rows[i].id <= m)

insert_chunk(rows, ch) ==
    Append(rows, [id |-> next_id(rows), source |-> ch.source,
                  section_title |-> ch.section_title, anchor |-> ch.anchor,
                  text |-> ch.text])

RECURSIVE insert_chunks(_, _)
insert_chunks(rows, chunks) ==
    IF chunks = <<>> THEN rows
    ELSE insert_chunks(insert_chunk(rows, Head(chunks)), Tail(chunks))

(***************************************************************************)
(* The embedding provider (SentenceTransformer.encode with                 *)
(* normalize_embeddings=True): a fixed function from texts to unit vectors.*)
(* A vector is kept with the text it was computed from.                    *)
(***************************************************************************)
UnitVectors == << <<1, 0>>, <<0, 1>>, <<-1, 0>>, <<0, -1>> >>

encode_one(text) ==
    LET h == (text.s \div (CHUNK_TOKENS - CHUNK_OVERLAP)) + Len(text.sec)
    IN  [vec |-> UnitVectors[(h % 4) + 1], text |-> text]

\* embedder.encode(texts): one vector per text, in input order
encode(texts) == [i \in DOMAIN texts |-> encode_one(texts[i])]

InnerProduct(u, v) == u[1] * v[1] + u[2] * v[2]

(***************************************************************************)
(* faiss IndexFlatIP.search(q, k) on the vectors vecs: the set of results  *)
(* the library may return.  A result has k hits; the first min(k, N) are   *)
(* the ordinals of the top inner products in descending score order (the   *)
(* order among equal scores is the library's), the rest are padding with   *)
(* ordinal -1.                                                             *)
(***************************************************************************)
\* the orders in which the m best of the ordinals in left can be returned
RECURSIVE top_orders(_, _, _, _)
top_orders(vecs, q, left, m) ==
    IF m = 0 \/ left = {} THEN { <<>> }
    ELSE LET score(p) == InnerProduct(q, vecs[p + 1].vec)
             best == { p \in left : \A r \in left : score(r) <= score(p) }
         IN  UNION { { <<p>> \o rest : rest \in top_orders(vecs, q, left \ {p}, m - 1) }
                     : p \in best }

search(vecs, q, k) ==
    LET N == Len(vecs)
        hit(p) == [ord |-> p, score |-> InnerProduct(q, vecs[p + 1].vec)]
        pad == [ord |-> -1, score |-> -2]
    IN  { [i \in 1..k |-> IF i <= Len(h) THEN hit(h[i]) ELSE pad]
          : h \in top_orders(vecs, q, 0..(N - 1), k) }

\* index.search(q, k) for k <= 0: a negative k cannot size the result arrays
\* and the call raises; k = 0 raises where the binding asserts k > 0 and
\* yields empty arrays where it does not
search_raises(k) == k <= 0

search_returns(k) == k >= 0

(***************************************************************************)
(* app/rag.py RAG.retrieve: the loop over the hits.                        *)
(***************************************************************************)
\* SELECT ... FROM chunks WHERE id=?; fetchone(): the rows with that id (0 or 1)
select_by_id(rows, id) == SelectSeq(rows, LAMBDA r : r.id = id)

\* the lookup loop leaving at the first hit without a row
RECURSIVE hydrate_hits_stop_at_missing(_, _, _, _)
hydrate_hits_stop_at_missing(hits, rank, rows, acc) ==
    IF rank >= Len(hits) THEN acc
    ELSE LET found == select_by_id(rows, hits[rank + 1].ord + 1)
         IN  IF found # <<>>
             THEN hydrate_hits_stop_at_missing(hits, rank + 1, rows,
                      Append(acc, [rank |-> rank + 1, id |-> found[1].id,
                                   source |-> found[1].source,
                                   section_title |-> found[1].section_title,
                                   anchor |-> found[1].anchor, text |-> found[1].text,
                                   score |-> hits[rank + 1].score]))
             ELSE acc

\* for rank, i in enumerate(idx[0].tolist()): ... (rank is 0-based)
RECURSIVE hydrate_hits(_, _, _, _)
hydrate_hits(hits, rank, rows, acc) ==
    IF rank >= Len(hits) THEN acc
    ELSE LET found == select_by_id(rows, hits[rank + 1].ord + 1)
         IN  IF found # <<>>
             THEN hydrate_hits(hits, rank + 1, rows,
                      Append(acc, [rank |-> rank + 1, id |-> found[1].id,
                                   source |-> found[1].source,
                                   section_title |-> found[1].section_title,
                                   anchor |-> found[1].anchor, text |-> found[1].text,
                                   score |-> hits[rank + 1].score]))
             ELSE hydrate_hits(hits, rank + 1, rows, acc)

(***************************************************************************)
(* app/rag.py RAG.build_prompt.                                            *)
(*                                                                         *)
(* A string of several lines is the sequence of its lines, and a line is   *)
(* a record [kind, lit, n, title, source, text]:                           *)
(*   kind = "literal": the characters lit;                                 *)
(*   kind = "header":  f"[{n}] {title} \u2014 {source}";                    *)
(*   kind = "text":    the chunk text.                                     *)
(* Chunk texts and section titles hold no line break: the chunker joins    *)
(* tokens with blanks and takes titles from single lines.                  *)
(***************************************************************************)
NoText == [sec |-> <<>>, s |-> 0, e |-> 0]

Lit(str) ==
    [kind |-> "literal", lit |-> str, n |-> 0, title |-> <<>>, source |-> "",
     text |-> NoText]

\* header = f"[{i}] {c['section_title']} \u2014 {c['source']}"
HeaderLine(i, c) ==
    [kind |-> "header", lit |-> "", n |-> i, title |-> c.section_title,
     source |-> c.source, text |-> NoText]

\* c["text"]
TextLine(c) ==
    [kind |-> "text", lit |-> "", n |-> 0, title |-> <<>>, source |-> "",
     text |-> c.text]

INSTRUCTION_1 ==
    "You answer only from the provided context. If info is missing, say so and suggest the closest section."

INSTRUCTION_2 == "Cite sources like [n] where n is the context item number."

\* f"Question:\n{question}\n": the lines of this one element of parts
question_part(question) ==
    <<Lit("Question:")>> \o [i \in DOMAIN question |-> Lit(question[i])] \o <<Lit("")>>

\* a variant that appends no empty string after an item
RECURSIVE context_parts_without_blank(_, _)
context_parts_without_blank(ctx, i) ==
    IF ctx = <<>> THEN <<>>
    ELSE << <<HeaderLine(i, Head(ctx))>>, <<TextLine(Head(ctx))>> >>
         \o context_parts_without_blank(Tail(ctx), i + 1)

\* for i, c in enumerate(ctx, start=1): the three elements appended per item
RECURSIVE context_parts(_, _)
context_parts(ctx, i) ==
    IF ctx = <<>> THEN <<>>
    ELSE << <<HeaderLine(i, Head(ctx))>>, <<TextLine(Head(ctx))>>, <<Lit("")>> >>
         \o context_parts(Tail(ctx), i + 1)

\* "\n".join(parts): each element of parts is the sequence of its own lines
RECURSIVE join_lines(_)
join_lines(parts) ==
    IF parts = <<>> THEN <<>> ELSE Head(parts) \o join_lines(Tail(parts))

build_prompt(question, ctx) ==
    join_lines(<< <<Lit(INSTRUCTION_1)>>, <<Lit(INSTRUCTION_2)>>, <<Lit("")>>,
                  question_part(question), <<Lit("Context:")>> >>
               \o context_parts(ctx, 1)
               \o << <<Lit("Answer:")>> >>)

(***************************************************************************)
(* app/rag.py RAG.generate.                                                *)
(*                                                                         *)
(* replies is what the provider would answer to the first, second, ...     *)
(* POST of the call: [kind, has_response, response], kind being "ok" (a    *)
(* 2xx status), "status_error" (any other status), "timeout" or            *)
(* "transport_error".  The result is [posts, raised, returned, text]:      *)
(* the number of POSTs sent, and either the exception or the return value. *)
(***************************************************************************)
ProviderReplies ==
    { [kind |-> "ok", has_response |-> TRUE, response |-> "an answer"],
      [kind |-> "ok", has_response |-> FALSE, response |-> ""],
      [kind |-> "status_error", has_response |-> FALSE, response |-> ""],
      [kind |-> "timeout", has_response |-> FALSE, response |-> ""],
      [kind |-> "transport_error", has_response |-> FALSE, response |-> ""] }

\* what the provider would answer to POST 1..MaxPosts: any reply to the
\* first, and to every later one either an answer or a timeout
ProviderCourses ==
    { [i \in 1..MaxPosts |-> IF i = 1 THEN first ELSE later] :
        first \in ProviderReplies,
        later \in { p \in ProviderReplies : p.has_response \/ p.kind = "timeout" } }

\* client.post raises on a timeout or a transport error, raise_for_status on
\* a status that is not a success; data.get("response", "") otherwise
generate_once(reply, posts) ==
    IF reply.kind = "ok"
    THEN [posts |-> posts, raised |-> FALSE, returned |-> TRUE,
          text |-> IF reply.has_response THEN reply.response ELSE ""]
    ELSE [posts |-> posts, raised |-> TRUE, returned |-> FALSE, text |-> ""]

\* a variant that posts a second time when the first POST failed
generate_retry_once(prompt, replies) ==
    IF replies[1].kind = "ok" \/ Len(replies) < 2
    THEN generate_once(replies[1], 1)
    ELSE generate_once(replies[2], 2)

generate(prompt, replies) == generate_once(replies[1], 1)

(***************************************************************************)
(* app/server.py ask.                                                      *)
(***************************************************************************)
\* the literal of 'req.k or 8'
DEFAULT_K == 8

\* k = req.k or 8; a request without k (None) is k_req = 0, and 0 is falsy too
effective_k(k_req) == IF k_req = 0 THEN DEFAULT_K ELSE k_req

\* a variant of 'if not ctx' that never takes the branch
no_context_never(ctx) == FALSE

\* if not ctx
no_context(ctx) == ctx = <<>>

\* a handler that runs in a worker thread may take a step at any time
scheduled_in_threads(owner, r) == TRUE

\* ask is a coroutine on the one event loop of the process: it takes a step
\* when the loop is free or is already running it, and keeps the loop until
\* it awaits or ends; retrieve and build_prompt hold no await
scheduled(owner, r) == owner \in {0, r}

(***************************************************************************)
(* SpecWindow: draw the arguments, then run the generator to exhaustion.   *)
(***************************************************************************)
Stems == {"a"}

NoFile == [stem |-> "", ext |-> "", mtime |-> 0]

NoOut == [exists |-> FALSE, mtime |-> 0, from |-> NoFile]

NoFlags ==
    [keep_source_on_success |-> FALSE, keep_unsupported |-> FALSE,
     keep_source_if_up_to_date |-> FALSE, include_md |-> FALSE]

\* the converter is not in use: Docs and data/raw are empty, no run was started
IdleConvert ==
    /\ t_docs = {} /\ t_out = [s \in Stems |-> NoOut] /\ t_flags = NoFlags
    /\ t_todo = {} /\ t_pc = "idle" /\ t_runs = 0 /\ t_start = {}
    /\ t_deleted = {} /\ t_done = {}

IdleSlug ==
    /\ s_in = <<>> /\ s_out = <<>> /\ s_pc = "idle"

IdlePrompt ==
    /\ p_question = <<>> /\ p_ctx = <<>> /\ p_out = <<>> /\ p_pc = "idle"

NoCursor == [by |-> 0, id |-> 0, rows |-> <<>>]

\* no server process: no request, nothing executed on the cursor
IdleServe ==
    /\ loop_owner = 0 /\ asks = <<>> /\ cursor = NoCursor

IdleWindow ==
    /\ w_len = 0 /\ w_size = 0 /\ w_overlap = 0 /\ w_out = <<>> /\ w_pc = "idle"

IdleChunk ==
    /\ c_md = <<>> /\ c_source = "" /\ c_out = <<>> /\ c_sections = <<>>
    /\ c_pc = "idle"

NoDb == [table |-> FALSE, rows |-> <<>>]
NoIndex == [exists |-> FALSE, vecs |-> <<>>]
NoMeta == [exists |-> FALSE, count |-> 0, embed_model |-> ""]
NoPre == [db |-> NoDb, faiss_file |-> NoIndex, meta_file |-> NoMeta]
NoRag == [open |-> FALSE, index |-> <<>>]
NoCall ==
    [called |-> FALSE, raised |-> FALSE, k |-> 0, q |-> <<0, 0>>,
     hits |-> <<>>, results |-> <<>>]

\* a fresh checkout: data/index is empty, nothing runs, no RAG object exists
InitIngest ==
    /\ db = NoDb /\ faiss_file = NoIndex /\ meta_file = NoMeta
    /\ pc = "idle" /\ run_files = <<>> /\ all_chunks = <<>> /\ index = <<>>
    /\ outcome = "none" /\ pre = NoPre /\ clean = TRUE
    /\ rag = NoRag /\ out = NoCall

InitWindow ==
    /\ w_len \in 0..MaxTokens
    /\ w_size \in -1..MaxSize
    /\ w_overlap \in -1..MaxOverlap
    /\ w_out = <<>>
    /\ w_pc = "call"
    /\ IdleChunk
    /\ InitIngest
    /\ IdleSlug /\ IdlePrompt /\ IdleServe /\ IdleConvert

CallSlidingWindow ==
    /\ w_pc = "call"
    /\ w_out' = sliding_window(w_len, w_size, w_overlap)
    /\ w_pc' = "done"
    /\ UNCHANGED <<w_len, w_size, w_overlap, cvars, ivars, rvars, svars, pvars, avars, tvars>>

NextWindow == CallSlidingWindow

SpecWindow == InitWindow /\ [][NextWindow]_vars

\* the claims' precondition on the configuration: 0 <= O < W
ValidConfig == 0 <= w_overlap /\ w_overlap < w_size

(***************************************************************************)
(* SpecChunk: draw a document, then call chunk_markdown on it.             *)
(***************************************************************************)
InitChunk ==
    /\ c_md \in SeqsUpTo(Lines, MaxLines)
    /\ c_source = "a.md"
    /\ c_out = <<>>
    /\ c_sections = <<>>
    /\ c_pc = "call"
    /\ IdleWindow
    /\ InitIngest
    /\ IdleSlug /\ IdlePrompt /\ IdleServe /\ IdleConvert

CallChunkMarkdown ==
    /\ c_pc = "call"
    /\ c_sections' = split_sections(c_md, 1, <<>>, <<>>, <<>>)
    /\ c_out' = chunk_markdown(c_md, c_source)
    /\ c_pc' = "done"
    /\ UNCHANGED <<c_md, c_source, wvars, ivars, rvars, svars, pvars, avars, tvars>>

NextChunk == CallChunkMarkdown

SpecChunk == InitChunk /\ [][NextChunk]_vars

(***************************************************************************)
(* SpecSlug: draw a heading title, then call slugify_heading on it.        *)
(***************************************************************************)
\* a lower-case and an upper-case letter, a blank, a hyphen, an underscore
\* and a punctuation mark
SlugAlphabet == {"a", "B", " ", "-", "_", "!"}

\* 'Section 1: Overview!' and '--a--b--'
SlugExamples ==
    { <<"S","e","c","t","i","o","n"," ","1",":"," ","O","v","e","r","v","i","e","w","!">>,
      <<"-","-","a","-","-","b","-","-">> }

InitSlug ==
    /\ s_in \in SeqsUpTo(SlugAlphabet, MaxSlugLen) \cup SlugExamples
    /\ s_out = <<>>
    /\ s_pc = "call"
    /\ IdleWindow /\ IdleChunk /\ InitIngest /\ IdlePrompt /\ IdleServe /\ IdleConvert

CallSlugifyHeading ==
    /\ s_pc = "call"
    /\ s_out' = slugify_heading(s_in)
    /\ s_pc' = "done"
    /\ UNCHANGED <<s_in, wvars, cvars, ivars, rvars, pvars, avars, tvars>>

NextSlug == CallSlugifyHeading

SpecSlug == InitSlug /\ [][NextSlug]_vars

(***************************************************************************)
(* SpecPrompt: draw a question and a context, then call build_prompt.      *)
(***************************************************************************)
\* a one-line question, the empty question and a question of two lines
Questions == { <<"What is X?">>, <<"">>, <<"first line", "second line">> }

\* results as retrieve returns them: a chunk under a heading, a chunk of a
\* document without headings, a second chunk of the same section
PromptResults ==
    { [rank |-> 1, id |-> 1, source |-> "a.txt", section_title |-> <<"A">>,
       anchor |-> <<"a">>, text |-> [sec |-> DocA, s |-> 0, e |-> 52], score |-> 1],
      [rank |-> 2, id |-> 2, source |-> "b.md", section_title |-> <<>>,
       anchor |-> <<>>, text |-> [sec |-> DocB, s |-> 0, e |-> 900], score |-> 0],
      [rank |-> 3, id |-> 3, source |-> "b.md", section_title |-> <<>>,
       anchor |-> <<>>, text |-> [sec |-> DocB, s |-> 780, e |-> 1680], score |-> 0] }

InitPrompt ==
    /\ p_question \in Questions
    /\ p_ctx \in SeqsUpTo(PromptResults, MaxCtx)
    /\ p_out = <<>>
    /\ p_pc = "call"
    /\ IdleWindow /\ IdleChunk /\ InitIngest /\ IdleSlug /\ IdleServe /\ IdleConvert

CallBuildPrompt ==
    /\ p_pc = "call"
    /\ p_out' = build_prompt(p_question, p_ctx)
    /\ p_pc' = "done"
    /\ UNCHANGED <<p_question, p_ctx, wvars, cvars, ivars, rvars, svars, avars, tvars>>

NextPrompt == CallBuildPrompt

SpecPrompt == InitPrompt /\ [][NextPrompt]_vars

(***************************************************************************)
(* SpecServe: one server process over a built index directory.  rag is the *)
(* module-level RAG object, every request runs ask() as a coroutine of the *)
(* process's event loop, and all of them use rag.cur.                      *)
(***************************************************************************)
Requests == 1..MaxRequests

AskQuestions == {"q1", "q2"}

\* req.k: absent (0), 1 and -1
AskKs == {0, 1, 0 - 1}

\* embedder.encode([query]): a fixed function from questions to unit vectors
encode_query(question) == IF question = "q1" THEN <<1, 0>> ELSE <<0, 1>>

ChunkTexts(chunks) == [i \in DOMAIN chunks |-> chunks[i].text]

\* index directories the server may start on: b.md ingested; b.md indexed
\* and the store since rebuilt from a.txt; b.md indexed and the store since
\* emptied by a run that found no chunks
ServeDirectories ==
    LET chunksA == chunk_markdown(DocA, "a.txt")
        chunksB == chunk_markdown(DocB, "b.md")
    IN  { [rows |-> insert_chunks(<<>>, chunksB), vecs |-> encode(ChunkTexts(chunksB))],
          [rows |-> insert_chunks(<<>>, chunksA), vecs |-> encode(ChunkTexts(chunksB))],
          [rows |-> <<>>, vecs |-> encode(ChunkTexts(chunksB))] }

NoGen == [called |-> FALSE, first |-> "", posts |-> 0, raised |-> FALSE,
          returned |-> FALSE, text |-> ""]

\* a request that has not reached the handler
NewAsk ==
    [pc |-> "new", question |-> "", k_req |-> 0, k |-> 0, hits |-> <<>>, pos |-> 0,
     ctx |-> <<>>, calls |-> <<>>, prompt |-> <<>>, gen |-> NoGen, status |-> 0,
     answer |-> ""]

Call(fn, ctx, prompt) == [fn |-> fn, ctx |-> ctx, prompt |-> prompt]

InitServe ==
    /\ \E d \in ServeDirectories :
           /\ db = [table |-> TRUE, rows |-> d.rows]
           /\ faiss_file = [exists |-> TRUE, vecs |-> d.vecs]
           /\ meta_file = [exists |-> TRUE, count |-> Len(d.vecs), embed_model |-> EMBED_MODEL]
           /\ rag = [open |-> TRUE, index |-> d.vecs]
    /\ pc = "idle" /\ run_files = <<>> /\ all_chunks = <<>> /\ index = <<>>
    /\ outcome = "none" /\ pre = NoPre /\ clean = TRUE /\ out = NoCall
    /\ loop_owner = 0
    /\ asks = [r \in Requests |-> NewAsk]
    /\ cursor = NoCursor
    /\ IdleWindow /\ IdleChunk /\ IdleSlug /\ IdlePrompt /\ IdleConvert

\* requests are numbered in the order in which their handlers start
arrives_next(r) == \A n \in Requests : n < r => asks[n].pc # "new"

\* ask: k = req.k or 8; rag.retrieve encodes the question and searches
Ask_Start(r) ==
    /\ asks[r].pc = "new"
    /\ arrives_next(r)
    /\ scheduled(loop_owner, r)
    /\ \E question \in AskQuestions, k_req \in AskKs :
           LET k == effective_k(k_req)
           IN  /\ search_returns(k)
               /\ \E hits \in search(rag.index, encode_query(question), k) :
                      asks' = [asks EXCEPT ![r] =
                                  [@ EXCEPT !.pc = IF hits = <<>> THEN "retrieved" ELSE "execute",
                                            !.question = question, !.k_req = k_req,
                                            !.k = k, !.hits = hits,
                                            !.calls = <<Call("retrieve", <<>>, <<>>)>>]]
    /\ loop_owner' = r
    /\ UNCHANGED <<cursor, wvars, cvars, ivars, rvars, svars, pvars, tvars>>

\* ask when index.search raises: the exception leaves retrieve and ask, the
\* framework answers 500
Ask_StartRaises(r) ==
    /\ asks[r].pc = "new"
    /\ arrives_next(r)
    /\ scheduled(loop_owner, r)
    /\ \E question \in AskQuestions, k_req \in AskKs :
           LET k == effective_k(k_req)
           IN  /\ search_raises(k)
               /\ asks' = [asks EXCEPT ![r] =
                              [@ EXCEPT !.pc = "done", !.question = question,
                                        !.k_req = k_req, !.k = k, !.status = 500,
                                        !.calls = <<Call("retrieve", <<>>, <<>>)>>]]
    /\ loop_owner' = 0
    /\ UNCHANGED <<cursor, wvars, cvars, ivars, rvars, svars, pvars, tvars>>

\* retrieve: self.cur.execute("SELECT ... WHERE id=?", (i + 1,))
Retrieve_Execute(r) ==
    /\ asks[r].pc = "execute"
    /\ scheduled(loop_owner, r)
    /\ LET id == asks[r].hits[asks[r].pos + 1].ord + 1
       IN  cursor' = [by |-> r, id |-> id, rows |-> select_by_id(db.rows, id)]
    /\ asks' = [asks EXCEPT ![r].pc = "fetch"]
    /\ loop_owner' = r
    /\ UNCHANGED <<wvars, cvars, ivars, rvars, svars, pvars, tvars>>

\* retrieve: row = self.cur.fetchone(), the next row of whatever statement
\* the cursor executed last; if row: out.append({...}); then the next hit,
\* or return out after the last one
Retrieve_Fetchone(r) ==
    /\ asks[r].pc = "fetch"
    /\ scheduled(loop_owner, r)
    /\ LET a == asks[r]
           rank == a.pos
           row == cursor.rows
           ctx == IF row # <<>>
                  THEN Append(a.ctx, [rank |-> rank + 1, id |-> row[1].id,
                                      source |-> row[1].source,
                                      section_title |-> row[1].section_title,
                                      anchor |-> row[1].anchor, text |-> row[1].text,
                                      score |-> a.hits[rank + 1].score])
                  ELSE a.ctx
       IN  /\ asks' = [asks EXCEPT ![r] =
                          [@ EXCEPT !.ctx = ctx, !.pos = rank + 1,
                                    !.pc = IF rank + 1 < Len(a.hits)
                                           THEN "execute" ELSE "retrieved"]]
           /\ cursor' = [cursor EXCEPT !.rows = IF row # <<>> THEN Tail(row) ELSE <<>>]
    /\ loop_owner' = r
    /\ UNCHANGED <<wvars, cvars, ivars, rvars, svars, pvars, tvars>>

\* ask: if not ctx: raise HTTPException(404, "No context found. ...")
Ask_NoContext(r) ==
    /\ asks[r].pc = "retrieved"
    /\ scheduled(loop_owner, r)
    /\ no_context(asks[r].ctx)
    /\ asks' = [asks EXCEPT ![r] = [@ EXCEPT !.pc = "done", !.status = 404]]
    /\ loop_owner' = 0
    /\ UNCHANGED <<cursor, wvars, cvars, ivars, rvars, svars, pvars, tvars>>

\* ask: prompt = rag.build_prompt(req.question, ctx); rag.generate(prompt) is
\* entered and the coroutine waits for the reply to its POST
Ask_Generate(r) ==
    /\ asks[r].pc = "retrieved"
    /\ scheduled(loop_owner, r)
    /\ ~no_context(asks[r].ctx)
    /\ LET a == asks[r]
           prompt == build_prompt(<<a.question>>, a.ctx)
       IN  asks' = [asks EXCEPT ![r] =
                      [@ EXCEPT !.pc = "await_post", !.prompt = prompt,
                                !.calls = a.calls \o <<Call("build_prompt", a.ctx, <<>>),
                                                       Call("generate", <<>>, prompt)>>]]
    /\ loop_owner' = 0
    /\ UNCHANGED <<cursor, wvars, cvars, ivars, rvars, svars, pvars, tvars>>

\* generate: the POST is answered, or fails; ask returns the answer with its
\* citations, or the exception leaves ask and the framework answers 500
Ask_Resume(r) ==
    /\ asks[r].pc = "await_post"
    /\ scheduled(loop_owner, r)
    /\ \E replies \in ProviderCourses :
           LET g == generate(asks[r].prompt, replies)
           IN  asks' = [asks EXCEPT ![r] =
                          [@ EXCEPT !.pc = "done",
                                    !.gen = [called |-> TRUE, first |-> replies[1].kind,
                                             posts |-> g.posts, raised |-> g.raised,
                                             returned |-> g.returned, text |-> g.text],
                                    !.status = IF g.raised THEN 500 ELSE 200,
                                    !.answer = g.text]]
    /\ loop_owner' = 0
    /\ UNCHANGED <<cursor, wvars, cvars, ivars, rvars, svars, pvars, tvars>>

NextServe ==
    \E r \in Requests :
        \/ Ask_Start(r)
        \/ Ask_StartRaises(r)
        \/ Retrieve_Execute(r)
        \/ Retrieve_Fetchone(r)
        \/ Ask_NoContext(r)
        \/ Ask_Generate(r)
        \/ Ask_Resume(r)

SpecServe == InitServe /\ [][NextServe]_vars

(***************************************************************************)
(* SpecConvert: run_total_convert.py main, run after run over one Docs     *)
(* folder and one data/raw folder.                                         *)
(*                                                                         *)
(* A file under Docs is [stem, ext, mtime]: its path without the suffix,   *)
(* its lower-cased suffix and its modification time.  out = (OUT_DIR /     *)
(* rel).with_suffix(".md") depends on the stem only, so data/raw is one    *)
(* file per stem, [exists, mtime, from]: from is the source whose          *)
(* conversion wrote the content it has now.  ".pdf" stands for the         *)
(* branches that call a converter of their own and delete on success       *)
(* (.pdf, .html/.htm, .csv/.tsv, .xlsx/.xls), ".docx" for the pandoc       *)
(* branch (.docx, .rtf), ".xyz" for every extension without a branch.      *)
(* The loop takes the files in the order rglob lists them, which the file  *)
(* system decides: any order.                                              *)
(***************************************************************************)
ConvertExts == {".pdf", ".docx", ".doc", ".txt", ".md", ".xyz"}

\* the time a file created during a run gets: later than every source
Now == MaxMtime + 1

DocsFiles == [stem : Stems, ext : ConvertExts, mtime : 1..MaxMtime]

\* the contents Docs may have before the first run: at most MaxFiles files,
\* no two at the same path
DocsContents ==
    { D \in SUBSET DocsFiles :
        /\ Cardinality(D) <= MaxFiles
        /\ \A f, g \in D : (f.stem = g.stem /\ f.ext = g.ext) => f = g }

FlagSets ==
    [keep_source_on_success : BOOLEAN, keep_unsupported : BOOLEAN,
     keep_source_if_up_to_date : BOOLEAN, include_md : BOOLEAN]

\* file_up_to_date(src, dst): dst exists and its mtime is not below src's
file_up_to_date(src, dst) == dst.exists /\ dst.mtime >= src.mtime

\* a converter wrote dst from src, then os.utime(dst, (.., src mtime))
written_from(src, via) == [exists |-> TRUE, mtime |-> via.mtime, from |-> src]

\* convert_with_pandoc(src, dst) -> [ok, dst]: pandoc is not installed
\* ("missing"), exits with 0 ("ok") or with another code ("failed"); in the
\* last case dst is not written, but an existing dst is still touched to the
\* mtime of src
PandocOutcomes == {"missing", "ok", "failed"}

convert_with_pandoc(src, via, dst, code) ==
    IF code = "ok" THEN [ok |-> TRUE, dst |-> written_from(src, via)]
    ELSE IF code = "failed" /\ dst.exists
         THEN [ok |-> FALSE, dst |-> [dst EXCEPT !.mtime = via.mtime]]
         ELSE [ok |-> FALSE, dst |-> dst]

\* a variant of the three delete_* functions that ignores its switch
delete_regardless(docs, path, enabled) == docs \ {path}

\* delete_on_success(path, enabled)
delete_on_success(docs, path, enabled) ==
    IF enabled THEN docs \ {path} ELSE docs

\* delete_on_up_to_date(path, enabled)
delete_on_up_to_date(docs, path, enabled) ==
    IF enabled THEN docs \ {path} ELSE docs

\* delete_unsupported(path, do_delete)
delete_unsupported(docs, path, do_delete) ==
    IF do_delete THEN docs \ {path} ELSE docs

\* the three switches of main: defaults delete, a --keep-* flag keeps
delete_on_success_default == ~t_flags.keep_source_on_success
delete_if_up_to_date_default == ~t_flags.keep_source_if_up_to_date
delete_unsupported_default == ~t_flags.keep_unsupported

out_of(src) == t_out[src.stem]

\* what the history records of one iteration of the loop
Deleted(src, why, docs) ==
    IF src \in docs THEN t_deleted
    ELSE t_deleted \cup {[file |-> src, why |-> why, out_from |-> out_of(src).from]}

Done(src, result) == t_done \cup {[file |-> src, result |-> result]}

InitConvert ==
    /\ t_docs \in DocsContents
    /\ t_out = [s \in Stems |-> NoOut]
    /\ t_flags = NoFlags
    /\ t_todo = {} /\ t_pc = "idle" /\ t_runs = 0 /\ t_start = {}
    /\ t_deleted = {} /\ t_done = {}
    /\ IdleWindow /\ IdleChunk /\ InitIngest /\ IdleSlug /\ IdlePrompt /\ IdleServe

others == <<wvars, cvars, ivars, rvars, svars, pvars, avars>>

\* main, lines 546-592: parse the flags, gather all_files
Convert_Start ==
    /\ t_pc = "idle"
    /\ t_runs < MaxRuns
    /\ t_flags' \in FlagSets
    /\ t_todo' = t_docs
    /\ t_start' = t_docs
    /\ t_pc' = "run"
    /\ t_runs' = t_runs + 1
    /\ t_deleted' = {}
    /\ t_done' = {}
    /\ UNCHANGED <<t_docs, t_out, others>>

\* lines 601-607, the fast path of every extension but .md: the output is
\* up to date, the source is skipped and handed to delete_on_up_to_date
Convert_UpToDate(src) ==
    /\ t_pc = "run" /\ src \in t_todo
    /\ src.ext # ".md"
    /\ file_up_to_date(src, out_of(src))
    /\ t_docs' = delete_on_up_to_date(t_docs, src, delete_if_up_to_date_default)
    /\ t_deleted' = Deleted(src, "up_to_date", t_docs')
    /\ t_done' = Done(src, "up_to_date")
    /\ t_todo' = t_todo \ {src}
    /\ UNCHANGED <<t_out, t_flags, t_pc, t_runs, t_start, others>>

\* lines 609-623 (and 664-672, 732-750): a converter of its own writes the
\* output and the source goes to delete_on_success, or it fails
Convert_Own(src) ==
    /\ t_pc = "run" /\ src \in t_todo
    /\ src.ext = ".pdf"
    /\ ~file_up_to_date(src, out_of(src))
    /\ \E ok \in BOOLEAN :
           IF ok
           THEN /\ t_out' = [t_out EXCEPT ![src.stem] = written_from(src, src)]
                /\ t_docs' = delete_on_success(t_docs, src, delete_on_success_default)
                /\ t_deleted' = Deleted(src, "success", t_docs')
                /\ t_done' = Done(src, "converted")
           ELSE /\ t_done' = Done(src, "failed")
                /\ UNCHANGED <<t_out, t_docs, t_deleted>>
    /\ t_todo' = t_todo \ {src}
    /\ UNCHANGED <<t_flags, t_pc, t_runs, t_start, others>>

\* lines 625-646, .md: only with --include-md; equal content is a skip that
\* goes to delete_on_up_to_date, otherwise shutil.copy2 (which keeps the
\* mtime) and delete_on_success.  The output has the content of src exactly
\* when it was written from src.
Convert_Md(src) ==
    /\ t_pc = "run" /\ src \in t_todo
    /\ src.ext = ".md"
    /\ IF ~t_flags.include_md
       THEN /\ t_done' = Done(src, "not_included")
            /\ UNCHANGED <<t_out, t_docs, t_deleted>>
       ELSE IF out_of(src).exists /\ out_of(src).from = src
       THEN /\ t_docs' = delete_on_up_to_date(t_docs, src, delete_if_up_to_date_default)
            /\ t_deleted' = Deleted(src, "up_to_date", t_docs')
            /\ t_done' = Done(src, "up_to_date")
            /\ UNCHANGED t_out
       ELSE /\ t_out' = [t_out EXCEPT ![src.stem] = written_from(src, src)]
            /\ t_docs' = delete_on_success(t_docs, src, delete_on_success_default)
            /\ t_deleted' = Deleted(src, "success", t_docs')
            /\ t_done' = Done(src, "converted")
    /\ t_todo' = t_todo \ {src}
    /\ UNCHANGED <<t_flags, t_pc, t_runs, t_start, others>>

\* lines 648-662, .txt: past the fast path the output is not up to date, so
\* the file is copied with shutil.copy2 and goes to delete_on_success
Convert_Txt(src) ==
    /\ t_pc = "run" /\ src \in t_todo
    /\ src.ext = ".txt"
    /\ ~file_up_to_date(src, out_of(src))
    /\ t_out' = [t_out EXCEPT ![src.stem] = written_from(src, src)]
    /\ t_docs' = delete_on_success(t_docs, src, delete_on_success_default)
    /\ t_deleted' = Deleted(src, "success", t_docs')
    /\ t_done' = Done(src, "converted")
    /\ t_todo' = t_todo \ {src}
    /\ UNCHANGED <<t_flags, t_pc, t_runs, t_start, others>>

\* lines 674-682, .docx and .rtf: convert_with_pandoc, delete_on_success
Convert_Pandoc(src) ==
    /\ t_pc = "run" /\ src \in t_todo
    /\ src.ext = ".docx"
    /\ ~file_up_to_date(src, out_of(src))
    /\ \E code \in PandocOutcomes :
         LET r == convert_with_pandoc(src, src, out_of(src), code) IN
           /\ t_out' = [t_out EXCEPT ![src.stem] = r.dst]
           /\ IF r.ok
              THEN /\ t_docs' = delete_on_success(t_docs, src, delete_on_success_default)
                   /\ t_deleted' = Deleted(src, "success", t_docs')
                   /\ t_done' = Done(src, "converted")
              ELSE /\ t_done' = Done(src, "failed")
                   /\ UNCHANGED <<t_docs, t_deleted>>
    /\ t_todo' = t_todo \ {src}
    /\ UNCHANGED <<t_flags, t_pc, t_runs, t_start, others>>

\* docx_path = src.with_suffix(".docx"); docx_path.exists()
docx_present(docs, src) ==
    \E g \in docs : g.stem = src.stem /\ g.ext = ".docx"

\* lines 684-693, .doc beside a .docx: the .doc is skipped and handed to
\* delete_on_up_to_date
Convert_DocSibling(src) ==
    /\ t_pc = "run" /\ src \in t_todo
    /\ src.ext = ".doc"
    /\ ~file_up_to_date(src, out_of(src))
    /\ docx_present(t_docs, src)
    /\ t_docs' = delete_on_up_to_date(t_docs, src, delete_if_up_to_date_default)
    /\ t_deleted' = Deleted(src, "docx_present", t_docs')
    /\ t_done' = Done(src, "docx_present")
    /\ t_todo' = t_todo \ {src}
    /\ UNCHANGED <<t_out, t_flags, t_pc, t_runs, t_start, others>>

\* the .docx that Word or soffice writes beside the .doc
intermediate(src) == [stem |-> src.stem, ext |-> ".docx", mtime |-> Now]

\* lines 703-730, .doc: Word, then soffice, write a .docx beside the source
\* (produced) or neither does; pandoc converts that .docx; on success the
\* .doc goes to delete_on_success and the intermediate is removed when
\* sources are deleted; on failure nothing is deleted
Convert_Doc(src) ==
    /\ t_pc = "run" /\ src \in t_todo
    /\ src.ext = ".doc"
    /\ ~file_up_to_date(src, out_of(src))
    /\ ~docx_present(t_docs, src)
    /\ \E produced \in BOOLEAN, code \in PandocOutcomes :
         LET new_src == intermediate(src)
             r == convert_with_pandoc(src, new_src, out_of(src), code)
         IN IF ~produced
            THEN /\ t_done' = Done(src, "failed")
                 /\ UNCHANGED <<t_out, t_docs, t_deleted>>
            ELSE /\ t_out' = [t_out EXCEPT ![src.stem] = r.dst]
                 /\ IF r.ok
                    THEN /\ t_docs' =
                              IF delete_on_success_default
                              THEN delete_on_success(t_docs, src, TRUE)
                              ELSE delete_on_success(t_docs, src, FALSE) \cup {new_src}
                         /\ t_deleted' = Deleted(src, "success", t_docs')
                         /\ t_done' = Done(src, "converted")
                    ELSE /\ t_docs' = t_docs \cup {new_src}
                         /\ t_done' = Done(src, "failed")
                         /\ UNCHANGED t_deleted
    /\ t_todo' = t_todo \ {src}
    /\ UNCHANGED <<t_flags, t_pc, t_runs, t_start, others>>

\* lines 752-757, an extension without a branch: delete_unsupported
Convert_Unsupported(src) ==
    /\ t_pc = "run" /\ src \in t_todo
    /\ src.ext = ".xyz"
    /\ ~file_up_to_date(src, out_of(src))
    /\ t_docs' = delete_unsupported(t_docs, src, delete_unsupported_default)
    /\ t_deleted' = Deleted(src, "unsupported", t_docs')
    /\ t_done' = Done(src, "unsupported")
    /\ t_todo' = t_todo \ {src}
    /\ UNCHANGED <<t_out, t_flags, t_pc, t_runs, t_start, others>>

\* lines 767-780: the loop is over, the run ends
Convert_End ==
    /\ t_pc = "run" /\ t_todo = {}
    /\ t_pc' = "idle"
    /\ UNCHANGED <<t_docs, t_out, t_flags, t_todo, t_runs, t_start, t_deleted, t_done, others>>

NextConvert ==
    \/ Convert_Start
    \/ \E src \in t_todo : Convert_UpToDate(src)
    \/ \E src \in t_todo : Convert_Own(src)
    \/ \E src \in t_todo : Convert_Md(src)
    \/ \E src \in t_todo : Convert_Txt(src)
    \/ \E src \in t_todo : Convert_Pandoc(src)
    \/ \E src \in t_todo : Convert_DocSibling(src)
    \/ \E src \in t_todo : Convert_Doc(src)
    \/ \E src \in t_todo : Convert_Unsupported(src)
    \/ Convert_End

SpecConvert == InitConvert /\ [][NextConvert]_vars

(***************************************************************************)
(* Spec: ingestion runs (app/ingest.py main) on one index directory, and   *)
(* one RAG object (app/rag.py) created and queried at any moment.          *)
(* A step of main is one externally visible effect: a commit, a file       *)
(* write, or the end of the run.                                           *)
(***************************************************************************)
Init == IdleWindow /\ IdleChunk /\ InitIngest /\ IdleSlug /\ IdlePrompt /\ IdleServe /\ IdleConvert

Artifacts == [db |-> db, faiss_file |-> faiss_file, meta_file |-> meta_file]

\* line 113: load_embedder() raises; the run ends before it touched anything
Main_LoadEmbedderFails ==
    /\ pc = "idle"
    /\ outcome' = "load_failed"
    /\ clean' = FALSE
    /\ run_files' = <<>>
    /\ pre' = NoPre
    /\ out' = NoCall
    /\ UNCHANGED <<db, faiss_file, meta_file, pc, all_chunks, index, rag, wvars, cvars, svars, pvars, avars, tvars>>

\* lines 113-117: load_embedder(), build_sqlite() (committed), all_chunks = []
Main_Start ==
    /\ pc = "idle"
    /\ db' = build_sqlite(db)
    /\ pre' = Artifacts
    /\ pc' = "walk"
    /\ outcome' = "running"
    /\ run_files' = <<>>
    /\ all_chunks' = <<>>
    /\ index' = <<>>
    /\ out' = NoCall
    /\ UNCHANGED <<faiss_file, meta_file, clean, rag, wvars, cvars, svars, pvars, avars, tvars>>

\* lines 119-136, a read_text raises OSError: the exception leaves main
Main_WalkRaises ==
    /\ pc = "walk"
    /\ \E files \in Walks :
           /\ walk_files(files, <<>>).raised
           /\ run_files' = files
    /\ pc' = "idle"
    /\ outcome' = "read_failed"
    /\ clean' = FALSE
    /\ pre' = NoPre
    /\ out' = NoCall
    /\ UNCHANGED <<db, faiss_file, meta_file, all_chunks, index, rag, wvars, cvars, svars, pvars, avars, tvars>>

\* lines 119-140, the walk produced no chunk: print and return
Main_WalkNoChunks ==
    /\ pc = "walk"
    /\ \E files \in Walks :
           /\ ~walk_files(files, <<>>).raised
           /\ walk_files(files, <<>>).chunks = <<>>
           /\ run_files' = files
    /\ pc' = "idle"
    /\ outcome' = "no_chunks"
    /\ pre' = NoPre
    /\ out' = NoCall
    /\ UNCHANGED <<db, faiss_file, meta_file, all_chunks, index, clean, rag, wvars, cvars, svars, pvars, avars, tvars>>

\* lines 119-138, the walk produced chunks
Main_WalkChunks ==
    /\ pc = "walk"
    /\ \E files \in Walks :
           /\ ~walk_files(files, <<>>).raised
           /\ walk_files(files, <<>>).chunks # <<>>
           /\ run_files' = files
           /\ all_chunks' = walk_files(files, <<>>).chunks
    /\ pc' = "insert"
    /\ out' = NoCall
    /\ UNCHANGED <<db, faiss_file, meta_file, index, outcome, pre, clean, rag, wvars, cvars, svars, pvars, avars, tvars>>

\* lines 143-150: INSERT every chunk in the order of all_chunks, then commit
Main_Insert ==
    /\ pc = "insert"
    /\ db' = [db EXCEPT !.rows = insert_chunks(db.rows, all_chunks)]
    /\ pc' = "embed"
    /\ out' = NoCall
    /\ UNCHANGED <<faiss_file, meta_file, run_files, all_chunks, index, outcome, pre,
                   clean, rag, wvars, cvars, svars, pvars, avars, tvars>>

\* lines 153-159: encode the texts, build the in-memory index, add the vectors
Main_Embed ==
    /\ pc = "embed"
    /\ index' = encode([i \in DOMAIN all_chunks |-> all_chunks[i].text])
    /\ pc' = "write_index"
    /\ out' = NoCall
    /\ UNCHANGED <<db, faiss_file, meta_file, run_files, all_chunks, outcome, pre,
                   clean, rag, wvars, cvars, svars, pvars, avars, tvars>>

\* line 153: embedder.encode raises; the exception leaves main
Main_EmbedFails ==
    /\ pc = "embed"
    /\ pc' = "idle"
    /\ outcome' = "embed_failed"
    /\ clean' = FALSE
    /\ all_chunks' = <<>>
    /\ out' = NoCall
    /\ UNCHANGED <<db, faiss_file, meta_file, run_files, index, pre, rag, wvars, cvars, svars, pvars, avars, tvars>>

\* line 160: faiss.write_index
Main_WriteIndex ==
    /\ pc = "write_index"
    /\ faiss_file' = [exists |-> TRUE, vecs |-> index]
    /\ pc' = "write_meta"
    /\ out' = NoCall
    /\ UNCHANGED <<db, meta_file, run_files, all_chunks, index, outcome, pre, clean,
                   rag, wvars, cvars, svars, pvars, avars, tvars>>

\* lines 163-169: write meta.json; main returns
Main_WriteMeta ==
    /\ pc = "write_meta"
    /\ meta_file' = [exists |-> TRUE, count |-> Len(all_chunks), embed_model |-> EMBED_MODEL]
    /\ pc' = "idle"
    /\ outcome' = "done"
    /\ all_chunks' = <<>>
    /\ index' = <<>>
    /\ pre' = NoPre
    /\ out' = NoCall
    /\ UNCHANGED <<db, faiss_file, run_files, clean, rag, wvars, cvars, svars, pvars, avars, tvars>>

\* rag.py RAG.__init__: sqlite3.connect opens the store file, creating an
\* empty one when there is none; the index file is read into memory and a
\* missing file makes read_index raise; meta.json is not opened
RAG_Init ==
    /\ faiss_file.exists
    /\ rag' = [open |-> TRUE, index |-> faiss_file.vecs]
    /\ out' = NoCall
    /\ UNCHANGED <<ivars, wvars, cvars, svars, pvars, avars, tvars>>

\* rag.py RAG.__init__ when read_index raises: no RAG object is bound
RAG_InitRaises ==
    /\ ~faiss_file.exists
    /\ rag' = NoRag
    /\ out' = NoCall
    /\ UNCHANGED <<ivars, wvars, cvars, svars, pvars, avars, tvars>>

QueryVectors == { UnitVectors[i] : i \in DOMAIN UnitVectors }

\* the k a caller may pass: retrieve has no guard of its own on k
RetrieveKs == (0 - 1)..MaxK

\* rag.py RAG.retrieve(query, k): encode the query, search the loaded index,
\* look every hit up in the store as committed now
RAG_Retrieve ==
    /\ rag.open
    /\ db.table
    /\ \E q \in QueryVectors, k \in RetrieveKs :
           /\ search_returns(k)
           /\ \E hits \in search(rag.index, q, k) :
                  out' = [called |-> TRUE, raised |-> FALSE, k |-> k, q |-> q,
                          hits |-> hits,
                          results |-> hydrate_hits(hits, 0, db.rows, <<>>)]
    /\ UNCHANGED <<rag, ivars, wvars, cvars, svars, pvars, avars, tvars>>

\* rag.py RAG.retrieve when index.search raises, or when the SELECT finds no
\* chunks table: the exception leaves retrieve, nothing is returned
RAG_RetrieveRaises ==
    /\ rag.open
    /\ \E q \in QueryVectors, k \in RetrieveKs :
           /\ \/ search_raises(k)
              \/ search_returns(k) /\ ~db.table /\ k > 0
           /\ out' = [called |-> TRUE, raised |-> TRUE, k |-> k, q |-> q,
                      hits |-> <<>>, results |-> <<>>]
    /\ UNCHANGED <<rag, ivars, wvars, cvars, svars, pvars, avars, tvars>>

Next ==
    \/ Main_LoadEmbedderFails
    \/ Main_Start
    \/ Main_WalkRaises
    \/ Main_WalkNoChunks
    \/ Main_WalkChunks
    \/ Main_Insert
    \/ Main_Embed
    \/ Main_EmbedFails
    \/ Main_WriteIndex
    \/ Main_WriteMeta
    \/ RAG_Init
    \/ RAG_InitRaises
    \/ RAG_Retrieve
    \/ RAG_RetrieveRaises

Spec == Init /\ [][Next]_vars

(***************************************************************************)
(* Claims about sliding_window (SpecWindow).                               *)
(***************************************************************************)
\* C2: for 0 <= O < W every emitted window has at most W tokens, and any two
\* consecutive windows share exactly O tokens: the end of the earlier one minus
\* the start of the later one is O, and those O tokens lie inside both windows
\* (the final, possibly short, window included).
C2_WindowSizeAndOverlap ==
    (w_pc = "done" /\ ValidConfig) =>
        /\ \A i \in DOMAIN w_out : w_out[i][2] - w_out[i][1] <= w_size
        /\ \A i \in 1..(Len(w_out) - 1) :
               /\ w_out[i][2] - w_out[i + 1][1] = w_overlap
               /\ w_out[i][1] <= w_out[i + 1][1]
               /\ w_out[i][2] <= w_out[i + 1][2]

\* three windows with a positive overlap, the last one shorter than W
C2_Witness ==
    /\ w_pc = "done" /\ ValidConfig
    /\ w_overlap >= 1
    /\ Len(w_out) >= 3
    /\ Last(w_out)[2] - Last(w_out)[1] < w_size

\* C3: for a section of at least 2 tokens and 0 <= O < W the last emitted window
\* ends at len(tokens), so every token index lies in some emitted window.
C3_LastWindowReachesEnd ==
    (w_pc = "done" /\ ValidConfig /\ w_len >= 2) =>
        /\ Len(w_out) >= 1
        /\ Last(w_out)[2] = w_len
        /\ \A t \in 0..(w_len - 1) :
               \E i \in DOMAIN w_out : w_out[i][1] <= t /\ t < w_out[i][2]

\* C4: for 0 <= O < W the emitted windows are exactly those of the reference
\* rule: the i-th window (1-based) starts at (i-1)*step with step = max(1, W-O)
\* and ends at min(n, start+W); every start is below max(0, n-1); no window
\* before the last ends at n; the sequence stops only when the next start would
\* reach max(0, n-1) or right after a window that ends at n; for n <= 1 nothing
\* is emitted.
C4_ReferenceWindows ==
    (w_pc = "done" /\ ValidConfig) =>
        LET step == IF w_size - w_overlap >= 1 THEN w_size - w_overlap ELSE 1
            bound == IF w_len - 1 >= 0 THEN w_len - 1 ELSE 0
            k == Len(w_out)
        IN  /\ \A i \in 1..k :
                   /\ w_out[i][1] = (i - 1) * step
                   /\ w_out[i][1] < bound
                   /\ w_out[i][2] = (IF w_out[i][1] + w_size <= w_len
                                     THEN w_out[i][1] + w_size ELSE w_len)
                   /\ (i < k => w_out[i][2] # w_len)
            /\ (k * step < bound => (k >= 1 /\ w_out[k][2] = w_len))
            /\ (w_len <= 1 => w_out = <<>>)

\* a run of at least two windows that stops because a window reached len(tokens)
C4_Witness ==
    /\ w_pc = "done" /\ ValidConfig
    /\ Len(w_out) >= 2
    /\ Last(w_out)[2] = w_len
    /\ Len(w_out) * (w_size - w_overlap) < w_len - 1

(***************************************************************************)
(* Claims about chunk_markdown (SpecChunk).                                *)
(***************************************************************************)
\* the token ranges of the returned chunks, in order
ChunkRanges == [i \in DOMAIN c_out |-> <<c_out[i].text.s, c_out[i].text.e>>]

\* the number of tokens in the non-heading lines of the document
RECURSIVE BodyTokenCount(_)
BodyTokenCount(md) ==
    IF md = <<>> THEN 0
    ELSE (IF Head(md).level = 0 THEN Head(md).ntok ELSE 0) + BodyTokenCount(Tail(md))

\* document A of the scenario: one heading line, followed by a 50-token body
OneHeadingWith50TokenBody ==
    /\ c_md # <<>>
    /\ c_md[1].level >= 1
    /\ \A i \in 2..Len(c_md) : c_md[i].level = 0
    /\ BodyTokenCount(c_md) = 50

\* document B of the scenario: no heading line, 2000 tokens
NoHeading2000Tokens ==
    /\ \A i \in DOMAIN c_md : c_md[i].level = 0
    /\ BodyTokenCount(c_md) = 2000

\* C5 as stated: A yields exactly one chunk with token range [0,50), B yields
\* the three chunks [0,900), [780,1680), [1560,2000) in that order.
C5_ScenarioAsStated ==
    c_pc = "done" =>
        /\ (OneHeadingWith50TokenBody => ChunkRanges = << <<0, 50>> >>)
        /\ (NoHeading2000Tokens =>
               ChunkRanges = << <<0, 900>>, <<780, 1680>>, <<1560, 2000>> >>)

\* C5 amended: A yields exactly one chunk with token range [0, 50+h), where
\* h >= 1 is the number of whitespace tokens of the heading line (the heading
\* line is content of its own section); B yields the three chunks [0,900),
\* [780,1680), [1560,2000) in that order.
C5_ScenarioWithHeadingTokens ==
    c_pc = "done" =>
        /\ (OneHeadingWith50TokenBody =>
               \E h \in 1..(1 + Len(c_md[1].text)) :
                   /\ h = count_tokens([i \in 1..c_md[1].level |-> "#"] \o c_md[1].text, FALSE)
                   /\ ChunkRanges = << <<0, 50 + h>> >>)
        /\ (NoHeading2000Tokens =>
               ChunkRanges = << <<0, 900>>, <<780, 1680>>, <<1560, 2000>> >>)

\* document A written "# A" and then its 50-token body, chunked
C5_Witness ==
    /\ c_pc = "done"
    /\ OneHeadingWith50TokenBody
    /\ c_md[1].text = <<" ", "A">>
    /\ Len(c_out) = 1

(***************************************************************************)
(* Claims about ingestion and retrieval (Spec).                            *)
(***************************************************************************)
\* the rows of the store with a given id
RowsWithId(id) == { i \in DOMAIN db.rows : db.rows[i].id = id }

\* index ordinal p (0-based) and store id p+1 refer to the same chunk
AlignedAt(p) ==
    /\ Cardinality(RowsWithId(p + 1)) = 1
    /\ \A i \in RowsWithId(p + 1) : db.rows[i].text = faiss_file.vecs[p + 1].text

\* C1: after any sequence of ingestion runs that each ran to their end (a run
\* that found no chunks included), every ordinal p in [0, N) of the persisted
\* index has a store row with id p+1, and that row is the chunk whose text was
\* embedded at position p.
C1_IndexAndStoreAligned ==
    (pc = "idle" /\ clean) =>
        \A p \in 0..(Len(faiss_file.vecs) - 1) : AlignedAt(p)

\* C6: retrieve returns at most k results and the i-th result (0-based) has rank
\* i+1, also when hits were omitted because their store row was not found.
C6_RanksNumberTheResults ==
    out.called =>
        /\ Len(out.results) <= out.k
        /\ \A i \in DOMAIN out.results : out.results[i].rank = i

\* the chunks the files of the run's walk yield, in walk order
RunChunks == walk_files(run_files, <<>>).chunks

\* C8: in every run the store is emptied before the first insert; the run's
\* chunks get the ids 1..N in the order of all_chunks; once the run has
\* inserted its N chunks the store holds exactly those N rows, and no row of an
\* earlier run.
C8_StoreRebuiltWithIds1toN ==
    /\ (pc \in {"walk", "insert"} => (db.table /\ db.rows = <<>>))
    /\ (pc \in {"embed", "write_index", "write_meta"} => all_chunks = RunChunks)
    /\ (\/ pc \in {"embed", "write_index", "write_meta"}
        \/ (pc = "idle" /\ outcome \in {"done", "embed_failed"}))
       => /\ Len(db.rows) = Len(RunChunks)
          /\ \A i \in DOMAIN db.rows :
                 /\ db.rows[i].id = i
                 /\ db.rows[i].source = RunChunks[i].source
                 /\ db.rows[i].section_title = RunChunks[i].section_title
                 /\ db.rows[i].anchor = RunChunks[i].anchor
                 /\ db.rows[i].text = RunChunks[i].text

\* a run has replaced the rows of an earlier, larger run by its own
C8_Witness ==
    /\ pc = "write_meta"
    /\ pre.db.rows # <<>>
    /\ Len(db.rows) < Len(pre.db.rows)
    /\ Len(db.rows) >= 1

\* C9: when the embedding provider fails during a run, the store, the index
\* and the manifest are all as they were before the run started.
C9_EmbedFailureCommitsNothing ==
    outcome = "embed_failed" => Artifacts = pre

\* the chunks of file f are in the store and in the index, at matching places
StoredAndIndexed(f) ==
    LET chunks == chunk_markdown(f.content, f.path)
    IN  \A c \in DOMAIN chunks :
            \E i \in DOMAIN db.rows :
                /\ db.rows[i].source = f.path
                /\ db.rows[i].text = chunks[c].text
                /\ faiss_file.exists
                /\ db.rows[i].id \in DOMAIN faiss_file.vecs
                /\ faiss_file.vecs[db.rows[i].id].text = chunks[c].text

\* C10: a document that is unsupported or cannot be read is skipped and the
\* batch continues: when the run has ended, every other readable, supported
\* document of the walk is chunked, stored and indexed by that run.
C10_UnreadableSkippedBatchContinues ==
    (pc = "idle" /\ outcome \in {"done", "no_chunks", "read_failed"}) =>
        \A i \in DOMAIN run_files :
            (run_files[i].ext \in SUPPORTED_EXTS /\ run_files[i].readable)
                => StoredAndIndexed(run_files[i])


(***************************************************************************)
(* C11.  Creating the RAG object succeeds only when the store, the index   *)
(* file and the manifest are all present and the manifest agrees with      *)
(* them: its count is the size of the index and of the store, and its      *)
(* embed model is the configured one.  Every other creation fails.         *)
(***************************************************************************)
ManifestMatches ==
    /\ db.table
    /\ faiss_file.exists
    /\ meta_file.exists
    /\ meta_file.count = Len(faiss_file.vecs)
    /\ meta_file.count = Len(db.rows)
    /\ meta_file.embed_model = EMBED_MODEL

C11_RagCreatedOnlyFromMatchingArtifacts ==
    [][RAG_Init => ManifestMatches]_vars

(***************************************************************************)
(* C12.  A retrieve call with k <= 0, or one against an index that holds   *)
(* no vector, returns the empty sequence and raises nothing.               *)
(***************************************************************************)
C12_NonPositiveKOrEmptyIndexReturnsEmpty ==
    (out.called /\ (out.k <= 0 \/ rag.index = <<>>)) =>
        (~out.raised /\ out.results = <<>>)

(***************************************************************************)
(* C13.  A retrieve call that returns leaves out exactly the hits whose    *)
(* ordinal + 1 is no row id of the store (the padding ordinal -1 among     *)
(* them) and returns the other hits in search order, each with the row of  *)
(* id ordinal + 1 and with the score the search gave to that hit.          *)
(***************************************************************************)
HasRow(h) == \E i \in DOMAIN db.rows : db.rows[i].id = h.ord + 1

Survivors(hits) == SelectSeq(hits, HasRow)

RowOfHit(h) == db.rows[CHOOSE i \in RowsWithId(h.ord + 1) : TRUE]

C13_MissingRowsOmittedOthersKept ==
    (out.called /\ ~out.raised) =>
        LET surv == Survivors(out.hits)
        IN  /\ Len(out.results) = Len(surv)
            /\ \A j \in DOMAIN surv :
                   /\ out.results[j].id = surv[j].ord + 1
                   /\ out.results[j].score = surv[j].score
                   /\ out.results[j].source = RowOfHit(surv[j]).source
                   /\ out.results[j].section_title = RowOfHit(surv[j]).section_title
                   /\ out.results[j].anchor = RowOfHit(surv[j]).anchor
                   /\ out.results[j].text = RowOfHit(surv[j]).text

\* a padded hit and a hit without a row are left out, a later hit is kept
C13_Witness ==
    /\ out.called /\ ~out.raised
    /\ \E i, j, m \in DOMAIN out.hits :
           /\ i < j
           /\ out.hits[i].ord >= 0 /\ ~HasRow(out.hits[i])
           /\ HasRow(out.hits[j])
           /\ out.hits[m].ord < 0
    /\ out.results # <<>>


(***************************************************************************)
(* C15.  The sections of a document are its maximal runs of lines that     *)
(* start at the first line or at a heading line.  Each is tagged with the  *)
(* heading path current before the heading line that ends it: the empty    *)
(* path before the first heading; a heading line of level L and title t    *)
(* makes the path the first min(len(path), L-1) elements of the old path   *)
(* followed by t, after the buffer was flushed with the old path, and is   *)
(* itself the first line of the section it opens.                          *)
(***************************************************************************)
SectionStarts ==
    { i \in DOMAIN c_md : i = 1 \/ c_md[i].level >= 1 }

StartOfSection(j) ==
    CHOOSE a \in SectionStarts : Cardinality({ x \in SectionStarts : x < a }) = j - 1

EndOfSection(j) ==
    IF j = Cardinality(SectionStarts) THEN Len(c_md) ELSE StartOfSection(j + 1) - 1

\* the heading path after the first i lines, by the rule of the claim
RECURSIVE PathAfterLine(_)
PathAfterLine(i) ==
    IF i = 0 THEN <<>>
    ELSE LET old == PathAfterLine(i - 1)
             L == c_md[i].level
             t == strip(c_md[i].text)
         IN  IF L >= 1
             THEN SubSeq(old, 1, Min(Len(old), L - 1)) \o <<t>>
             ELSE old

C15_SectionsTaggedWithPathBeforeNextHeading ==
    c_pc = "done" =>
        /\ Len(c_sections) = Cardinality(SectionStarts)
        /\ \A j \in DOMAIN c_sections :
               /\ c_sections[j].text = SubSeq(c_md, StartOfSection(j), EndOfSection(j))
               /\ c_sections[j].path = PathAfterLine(EndOfSection(j))

\* a section under a two-title path, ended by a level-1 heading that cuts the
\* path back to one title
C15_Witness ==
    /\ c_pc = "done"
    /\ \E j \in DOMAIN c_sections :
           /\ j + 1 \in DOMAIN c_sections
           /\ Len(c_sections[j].path) = 2
           /\ Len(c_sections[j + 1].path) = 1
           /\ c_sections[j + 1].text[1].level = 1

(***************************************************************************)
(* C16.  Every chunk carries the section_title made of the titles of its   *)
(* section's heading path, blank titles left out, joined by " / ", and the *)
(* anchor that is the slug of the last title of that path, or the empty    *)
(* string when the path is empty; the chunks of one section agree on both. *)
(***************************************************************************)
IsBlankTitle(t) == \A i \in DOMAIN t : IsSpace(t[i])

RECURSIVE TitlesJoined(_)
TitlesJoined(ts) ==
    IF ts = <<>> THEN <<>>
    ELSE IF Len(ts) = 1 THEN ts[1]
    ELSE TitlesJoined(Front(ts)) \o <<" ", "/", " ">> \o Last(ts)

HasChunks(sec) ==
    sliding_window(section_tokens(sec.text), CHUNK_TOKENS, CHUNK_OVERLAP) # <<>>

\* the section chunk i was cut from: chunks come section by section, and the
\* first chunk of a section starts at token 0
SectionOfChunk(i) ==
    SelectSeq(c_sections, HasChunks)[
        Cardinality({ n \in 1..i : c_out[n].text.s = 0 })]

C16_ChunksCarrySectionTitleAndAnchor ==
    c_pc = "done" =>
        \A i \in DOMAIN c_out :
            LET sec == SectionOfChunk(i)
            IN  /\ c_out[i].text.sec = sec.text
                /\ c_out[i].section_title =
                       TitlesJoined(SelectSeq(sec.path, LAMBDA t : ~IsBlankTitle(t)))
                /\ c_out[i].anchor =
                       IF sec.path = <<>> THEN <<>> ELSE slugify_heading(Last(sec.path))

\* a section of several chunks under a two-title path whose titles differ in
\* their slugs
C16_Witness ==
    /\ c_pc = "done"
    /\ \E i \in DOMAIN c_out :
           /\ i + 1 \in DOMAIN c_out
           /\ c_out[i + 1].text.s > 0
           /\ Len(SectionOfChunk(i).path) = 2
           /\ ~IsBlankTitle(SectionOfChunk(i).path[1])
           /\ slugify_heading(SectionOfChunk(i).path[1]) # c_out[i].anchor
           /\ c_out[i].anchor # <<>>
           /\ c_out[i + 1].anchor = c_out[i].anchor


(***************************************************************************)
(* C17.  slugify_heading(s) is the slug of s: s in lower case and trimmed, *)
(* without the characters that are neither word characters, whitespace nor *)
(* hyphens, every run of whitespace and underscores replaced by one        *)
(* hyphen, every run of hyphens reduced to one, leading and trailing       *)
(* hyphens removed.  'Section 1: Overview!' gives 'section-1-overview' and *)
(* '--a--b--' gives 'a-b'.                                                 *)
(***************************************************************************)
IsSeparator(c) == IsSpace(c) \/ c = "_"

\* the characters of s at the positions that do not continue a run of R-characters
WithoutRunTails(s, R(_)) ==
    SubSeqOf(s, { i \in DOMAIN s : ~(R(s[i]) /\ i > 1 /\ R(s[i - 1])) })

IsHyphen(c) == c = "-"

\* the slug algorithm, step by step on positions
Slug(s) ==
    LET low == [i \in DOMAIN s |-> lower_char(s[i])]
        inner == { i \in DOMAIN low : ~IsSpace(low[i]) }
        trimmed == IF inner = {} THEN <<>>
                   ELSE SubSeq(low, CHOOSE i \in inner : \A j \in inner : i <= j,
                                    CHOOSE i \in inner : \A j \in inner : i >= j)
        kept == SubSeqOf(trimmed, { i \in DOMAIN trimmed :
                                      IsWord(trimmed[i]) \/ IsSpace(trimmed[i])
                                      \/ trimmed[i] = "-" })
        runs == WithoutRunTails(kept, IsSeparator)
        hyph == [i \in DOMAIN runs |-> IF IsSeparator(runs[i]) THEN "-" ELSE runs[i]]
        single == WithoutRunTails(hyph, IsHyphen)
        core == { i \in DOMAIN single : single[i] # "-" }
    IN  IF core = {} THEN <<>>
        ELSE SubSeq(single, CHOOSE i \in core : \A j \in core : i <= j,
                            CHOOSE i \in core : \A j \in core : i >= j)

C17_SlugifyHeadingIsTheSlug ==
    s_pc = "done" =>
        /\ s_out = Slug(s_in)
        /\ (s_in = <<"S","e","c","t","i","o","n"," ","1",":"," ","O","v","e","r","v","i","e","w","!">>
               => s_out = <<"s","e","c","t","i","o","n","-","1","-","o","v","e","r","v","i","e","w">>)
        /\ (s_in = <<"-","-","a","-","-","b","-","-">> => s_out = <<"a","-","b">>)

\* the second example of the claim has been slugged
C17_Witness ==
    /\ s_pc = "done"
    /\ s_in = <<"-","-","a","-","-","b","-","-">>
    /\ s_out = <<"a","-","b">>


(***************************************************************************)
(* C14.  build_prompt(question, ctx) with n context items is the fixed     *)
(* template: the two instruction lines, an empty line, 'Question:', the    *)
(* question as given, an empty line, 'Context:', then for i = 1..n the     *)
(* header of item i (its number i in brackets, its section_title, a dash,  *)
(* its source), its text and an empty line, and last 'Answer:'.  With      *)
(* n = 0 'Answer:' follows 'Context:'.                                     *)
(***************************************************************************)
IsLiteral(line, str) == line.kind = "literal" /\ line.lit = str

C14_PromptIsTheTemplate ==
    p_pc = "done" =>
        LET Q == Len(p_question)
            n == Len(p_ctx)
            base == 6 + Q
        IN  /\ Len(p_out) = base + 3 * n + 1
            /\ IsLiteral(p_out[1], INSTRUCTION_1)
            /\ IsLiteral(p_out[2], INSTRUCTION_2)
            /\ IsLiteral(p_out[3], "")
            /\ IsLiteral(p_out[4], "Question:")
            /\ \A i \in 1..Q : IsLiteral(p_out[4 + i], p_question[i])
            /\ IsLiteral(p_out[5 + Q], "")
            /\ IsLiteral(p_out[base], "Context:")
            /\ \A i \in 1..n :
                   /\ p_out[base + 3 * i - 2].kind = "header"
                   /\ p_out[base + 3 * i - 2].n = i
                   /\ p_out[base + 3 * i - 2].title = p_ctx[i].section_title
                   /\ p_out[base + 3 * i - 2].source = p_ctx[i].source
                   /\ p_out[base + 3 * i - 1].kind = "text"
                   /\ p_out[base + 3 * i - 1].text = p_ctx[i].text
                   /\ IsLiteral(p_out[base + 3 * i], "")
            /\ IsLiteral(p_out[base + 3 * n + 1], "Answer:")
            /\ (n = 0 => IsLiteral(p_out[base + 1], "Answer:"))

\* a prompt over three items whose ranks are not 1, 2, 3 has been built
C14_Witness ==
    /\ p_pc = "done"
    /\ Len(p_ctx) = 3
    /\ p_ctx[1].rank = 3
    /\ p_out[Len(p_out) - 3].n = 3
    /\ p_out[Len(p_out)].lit = "Answer:"


(***************************************************************************)
(* C18.  Under any interleaving of concurrent /ask requests on the one RAG *)
(* object, no request's execute/fetchone pair on the shared cursor is      *)
(* interleaved with another request's: when a request is about to          *)
(* fetchone, the statement on the cursor is the one it executed itself     *)
(* for its current hit, and every result it holds is the row of its own    *)
(* hit at that rank.                                                       *)
(***************************************************************************)
C18_ExecuteFetchonePairsNotInterleaved ==
    \A r \in Requests :
        /\ asks[r].pc = "fetch" =>
               /\ cursor.by = r
               /\ cursor.id = asks[r].hits[asks[r].pos + 1].ord + 1
        /\ \A j \in DOMAIN asks[r].ctx :
               asks[r].ctx[j].id = asks[r].hits[asks[r].ctx[j].rank].ord + 1

\* one request waits for its generation while another, started after it, is
\* between execute and fetchone
C18_Witness ==
    \E r1, r2 \in Requests :
        /\ r1 # r2
        /\ asks[r1].pc = "await_post"
        /\ asks[r2].pc = "fetch"
        /\ asks[r2].ctx # <<>>
        /\ cursor.by = r2

(***************************************************************************)
(* C19.  Every /ask request calls retrieve, then build_prompt with exactly *)
(* the results retrieve returned, then generate with exactly the prompt    *)
(* build_prompt returned, each at most once and in this order.  When       *)
(* retrieve returns no result the request is answered 404 and neither      *)
(* build_prompt nor generate is called.                                    *)
(***************************************************************************)
C19_RetrieveThenPromptThenGenerate ==
    \A r \in Requests :
        LET a == asks[r]
            order == <<"retrieve", "build_prompt", "generate">>
            returned == \/ a.pc \in {"retrieved", "await_post"}
                        \/ a.status \in {200, 404}
                        \/ a.gen.called
        IN  /\ Len(a.calls) <= 3
            /\ \A i \in DOMAIN a.calls : a.calls[i].fn = order[i]
            /\ (a.pc # "new") => Len(a.calls) >= 1
            /\ Len(a.calls) >= 2 =>
                   /\ returned
                   /\ a.calls[2].ctx = a.ctx
                   /\ a.ctx # <<>>
                   /\ Len(a.calls) = 3
                   /\ a.calls[3].prompt = build_prompt(<<a.question>>, a.ctx)
            /\ (returned /\ a.ctx = <<>> /\ a.pc = "done") =>
                   (a.status = 404 /\ Len(a.calls) = 1)
            /\ (a.status = 404) => (a.ctx = <<>> /\ Len(a.calls) = 1)
            /\ (a.status = 200) => Len(a.calls) = 3

\* one request answered 404 after an empty retrieve, another answered 200
C19_Witness ==
    \E r1, r2 \in Requests :
        /\ asks[r1].status = 404 /\ asks[r1].hits # <<>>
        /\ asks[r2].status = 200 /\ Len(asks[r2].calls) = 3

(***************************************************************************)
(* C20.  One call of generate sends exactly one request to the provider    *)
(* and never a second one; when that request fails (transport error,       *)
(* timeout, a status that is not a success) generate raises and returns    *)
(* no text.                                                                *)
(***************************************************************************)
C20_OnePostNoRetryFailureRaises ==
    \A r \in Requests :
        asks[r].gen.called =>
            /\ asks[r].gen.posts = 1
            /\ (asks[r].gen.first # "ok") =>
                   /\ asks[r].gen.raised
                   /\ ~asks[r].gen.returned
                   /\ asks[r].gen.text = ""
                   /\ asks[r].status = 500
            /\ (asks[r].gen.first = "ok") => (asks[r].gen.returned /\ ~asks[r].gen.raised)

\* a generate call whose POST timed out, and one that was answered
C20_Witness ==
    \E r1, r2 \in Requests :
        /\ asks[r1].gen.called /\ asks[r1].gen.first = "timeout" /\ asks[r1].gen.raised
        /\ asks[r2].gen.called /\ asks[r2].gen.first = "ok" /\ asks[r2].answer = "an answer"


(***************************************************************************)
(* C23.  After a heading line of level L has been processed the heading    *)
(* path has exactly L elements: every section that a heading line opens    *)
(* is tagged with a path as long as the level of that heading, also when   *)
(* headings skip levels.                                                   *)
(***************************************************************************)
C23_PathLengthIsHeadingLevel ==
    c_pc = "done" =>
        \A j \in DOMAIN c_sections :
            c_sections[j].text[1].level >= 1 =>
                Len(c_sections[j].path) = c_sections[j].text[1].level

(***************************************************************************)
(* C25.  For every token count n and all integers W and O, also O >= W and *)
(* W <= 0, sliding_window ends after at most max(0, n - 1) windows whose   *)
(* starts increase strictly; when W >= 1 every window [s, e) has           *)
(* 0 <= s < e <= n, so no chunk is cut with an empty text.                 *)
(***************************************************************************)
C25_WindowsBoundedAndNonEmpty ==
    w_pc = "done" =>
        /\ Len(w_out) <= (IF w_len - 1 >= 0 THEN w_len - 1 ELSE 0)
        /\ \A i \in 1..(Len(w_out) - 1) : w_out[i][1] < w_out[i + 1][1]
        /\ w_size >= 1 =>
               \A i \in DOMAIN w_out :
                   /\ 0 <= w_out[i][1]
                   /\ w_out[i][1] < w_out[i][2]
                   /\ w_out[i][2] <= w_len

\* an overlap not below the size: the step is 1 and several windows are emitted
C25_Witness ==
    /\ w_pc = "done"
    /\ w_size >= 1
    /\ w_overlap >= w_size
    /\ Len(w_out) >= 3
    /\ w_out[2][1] = 1


(***************************************************************************)
(* C21: a converter run with --keep-source-on-success, --keep-unsupported  *)
(* and --keep-source-if-up-to-date all set deletes no file that was under  *)
(* Docs when the run started, whatever Docs holds and however each file    *)
(* ends: converted, failed, skipped as up to date, or unsupported.         *)
(***************************************************************************)
all_keep_flags ==
    /\ t_flags.keep_source_on_success
    /\ t_flags.keep_unsupported
    /\ t_flags.keep_source_if_up_to_date

results_of_run == { d.result : d \in t_done }

C22_DocDeletedOnlyConvertedOrUpToDate ==
    \A d \in t_deleted :
        d.file.ext = ".doc" => d.why \in {"success", "up_to_date"}

\* the part of C22 about unsupported files
C22_UnsupportedNeverDoc ==
    \A d \in t_deleted : d.why = "unsupported" => d.file.ext # ".doc"


(***************************************************************************)
(* C24: with the default flags a source is deleted as up to date only if   *)
(* the output at its mapped path was produced from that same source; two   *)
(* sources that map to one output (a.pdf and a.docx, both a.md) are never  *)
(* deleted without each having been converted itself.                      *)
(***************************************************************************)
C24_UpToDateDeletionOnlyOfConvertedSource ==
    t_flags = NoFlags =>
        \A d \in t_deleted :
            d.why = "up_to_date" => d.out_from = d.file


(***************************************************************************)
(* C26: when an ingestion run executes while a RAG object that loaded the  *)
(* index of the run before is still serving, every result it returns       *)
(* pairs the score with the chunk whose embedding produced that score: the *)
(* in-memory index and the store rows read at query time belong to the     *)
(* same ingestion run.                                                     *)
(***************************************************************************)
\* before the run that executes now, store and index were from one run: row
\* i has id i and the text embedded at position i
AlignedBeforeRun ==
    /\ pre.faiss_file.exists
    /\ pre.db.table
    /\ Len(pre.db.rows) = Len(pre.faiss_file.vecs)
    /\ \A i \in DOMAIN pre.db.rows :
           /\ pre.db.rows[i].id = i
           /\ pre.db.rows[i].text = pre.faiss_file.vecs[i].text

\* a retrieve call returned while a run executes, on the index of before
ServedDuringRun ==
    /\ pc # "idle"
    /\ rag.open /\ rag.index = pre.faiss_file.vecs
    /\ AlignedBeforeRun
    /\ out.called /\ ~out.raised

C26_ResultsPairScoreWithOwnChunk ==
    ServedDuringRun =>
        \A j \in DOMAIN out.results :
            /\ out.results[j].id \in DOMAIN rag.index
            /\ out.results[j].text = rag.index[out.results[j].id].text

====
